---- MODULE Spec2Model ----
(***************************************************************************)
(* Model of sdgx/models/LLM/base.py: the class LLMBaseModel with its       *)
(* access-type check (_check_access_type) and its column describer         *)
(* (Form_columns_description and the four per-dtype helpers).              *)
(*                                                                         *)
(* A text is modelled as the sequence of its lines (the empty string is    *)
(* the empty sequence, "\n" is one blank line).  A line is a record        *)
(*   [tag, txt, a, b]                                                      *)
(* where tag is the literal part of the f-string and txt/a/b the formatted *)
(* value: an int is txt = "int", a = value; a float is the reduced         *)
(* fraction a/b (txt = "float") or the square root of the reduced fraction *)
(* a/b (txt = "sqrt"); NaN is txt = "nan"; a string is txt itself.         *)
(***************************************************************************)
EXTENDS Integers, Sequences, FiniteSets

VARIABLES self, sampled_data, ret, calls, access

vars == <<self, sampled_data, ret, calls, access>>

(* ------------------------------ bounds -------------------------------- *)

\* A table has at most MaxCols columns ...
MaxCols == 2
\* ... and at most MaxCells cells (columns times rows).
MaxCells == 4
\* Cell values are 0..MaxVal: integers, day numbers, or labels of
\* categories and of objects, according to the column's dtype.
MaxVal == 1

(* ------------------------------ inputs -------------------------------- *)

\* The labels of the columns of a table, in column order: distinct, and
\* in an order that is not the alphabetical one.
NamePool == <<"income", "age", "city", "date", "label">>

\* The dtypes pandas reports for a column.  A date/time column has the
\* dtype datetime64[ns]: pandas stores no unit-less datetime64 column.
\* float64 stands for the dtypes none of the four branches names.
Dtypes == {"int64", "datetime64[ns]", "category", "object", "float64"}

Values == 0..MaxVal

\* The (columns, rows) shapes within the bounds.
Shapes == {s \in (0..MaxCols) \X (0..MaxCells) :
             /\ s[1] * s[2] <= MaxCells
             /\ (s[1] = 0 => s[2] = 0)}

\* A DataFrame: its columns in order, each with a label, a dtype and one
\* value per row.
TablesOfShape(k, n) ==
    {[j \in 1..k |-> [name |-> NamePool[j], dtype |-> body[j].dtype,
                      values |-> body[j].values]] :
        body \in [1..k -> [dtype : Dtypes, values : [1..n -> Values]]]}

Tables == UNION {TablesOfShape(s[1], s[2]) : s \in Shapes}

(* --------------------------- formatted values -------------------------- *)

RECURSIVE GCD(_, _)
GCD(x, y) == IF y = 0 THEN x ELSE GCD(y, x % y)

Line(tag, txt, a, b) == [tag |-> tag, txt |-> txt, a |-> a, b |-> b]

\* f"{v}" of an int.
FmtInt(tag, v) == Line(tag, "int", v, 1)
\* f"{v}" of a str, or of the name of a dtype.
FmtStr(tag, s) == Line(tag, s, 0, 0)
\* f"{v}" of the float num/den.
FmtFloat(tag, num, den) ==
    LET g == GCD(num, den) IN Line(tag, "float", num \div g, den \div g)
\* f"{v}" of the float sqrt(num/den).
FmtSqrt(tag, num, den) ==
    LET g == GCD(num, den) IN Line(tag, "sqrt", num \div g, den \div g)
\* f"{v}" of NaN.
FmtNaN(tag) == Line(tag, "nan", 0, 0)
\* f"{v}" of a bound method object: "<bound method Series.max of ...>".
FmtBoundMethod(tag, method) == Line(tag, method, 0, 0)

BlankLine == Line("", "", 0, 0)

(* --------------------------- Series reductions ------------------------- *)

RECURSIVE SeqSum(_)
SeqSum(s) == IF s = <<>> THEN 0 ELSE Head(s) + SeqSum(Tail(s))

RECURSIVE SeqMin(_)
SeqMin(s) == IF Len(s) = 1 THEN s[1]
             ELSE LET m == SeqMin(Tail(s)) IN IF Head(s) < m THEN Head(s) ELSE m

RECURSIVE SeqMax(_)
SeqMax(s) == IF Len(s) = 1 THEN s[1]
             ELSE LET m == SeqMax(Tail(s)) IN IF Head(s) > m THEN Head(s) ELSE m

\* Series.unique(): the distinct values.
Unique(s) == {s[p] : p \in 1..Len(s)}

\* Series.min() / Series.max(): NaN on an empty column.
SeriesMin(tag, s) == IF s = <<>> THEN FmtNaN(tag) ELSE FmtInt(tag, SeqMin(s))
SeriesMax(tag, s) == IF s = <<>> THEN FmtNaN(tag) ELSE FmtInt(tag, SeqMax(s))

\* Series.mean(): sum / count, NaN on an empty column.
SeriesMean(tag, s) ==
    IF s = <<>> THEN FmtNaN(tag) ELSE FmtFloat(tag, SeqSum(s), Len(s))

\* The delta degrees of freedom Series.std() uses by default.
Ddof == 1

\* SeriesStd with the population denominator N (ddof = 0).
SeriesStdPopulation(tag, s) ==
    LET n == Len(s)
        S == SeqSum(s)
        sqr == SeqSum([p \in 1..n |-> (S - n * s[p]) * (S - n * s[p])])
    IN  IF n <= 0 THEN FmtNaN(tag)
        ELSE FmtSqrt(tag, sqr, n * n * n)

\* Series.std(): sqrt(sum((mean - x)^2) / (count - ddof)), NaN when
\* count <= ddof.  With mean = S/n, sum((mean - x)^2) = sum((S - n*x)^2)/n^2.
SeriesStd(tag, s) ==
    LET n == Len(s)
        S == SeqSum(s)
        sqr == SeqSum([p \in 1..n |-> (S - n * s[p]) * (S - n * s[p])])
    IN  IF n <= Ddof THEN FmtNaN(tag)
        ELSE FmtSqrt(tag, sqr, n * n * (n - Ddof))

(* ------------------------- per-dtype descriptions ---------------------- *)

\* What a helper hands back: the lines it formatted, or the exception it
\* raised.
Described(lines) == [exc |-> "", lines |-> lines]
Raised(exc) == [exc |-> exc, lines |-> <<>>]

\* data_type == "<name>": a dtype equals a string when the string names
\* exactly that dtype.  "datetime64" names the unit-less datetime dtype,
\* which differs from datetime64[ns].
DtypeEq(data_type, name) == data_type = name

\* Calling an attribute: Series.values is a property, so its value (an
\* array, a Categorical) is no callable and the call raises TypeError;
\* an attribute that is a method is called.
CallAttribute(attr) == IF attr = "values" THEN "TypeError" ELSE ""

_add_int64_column_descriptions(column_data) ==
    Described(<<SeriesMin("min value: ", column_data),
                SeriesMax("max value: ", column_data),
                SeriesMean("mean value: ", column_data),
                SeriesStd("standard deviation: ", column_data)>>)

\* end_date is column_data.max, the method itself, never called.
_add_datetime64_column_descriptions(column_data) ==
    Described(<<SeriesMin("start date: ", column_data),
                FmtBoundMethod("end date: ", "<bound method Series.max>")>>)

\* len(column_data.values()) raises before anything is formatted.
_add_category_column_descriptions(column_data) ==
    IF CallAttribute("values") /= ""
    THEN Raised(CallAttribute("values"))
    ELSE Described(<<FmtInt("number of all category values: ", Len(column_data)),
                     FmtStr("number of unique category values: ", "<array of the unique values>")>>)

\* _add_object_column_descriptions with len(column_data) for both counts.
AddObjectDescriptionsNoUnique(column_data) ==
    Described(<<FmtInt("number of all object values: ", Len(column_data)),
                FmtInt("number of unique object values: ", Len(column_data))>>)

_add_object_column_descriptions(column_data) ==
    Described(<<FmtInt("number of all object values: ", Len(column_data)),
                FmtInt("number of unique object values: ",
                       Cardinality(Unique(column_data)))>>)

(* ----------------------- Form_columns_description ---------------------- *)

\* The header of the column at zero-based position i.
Header(i, column_name, data_type) ==
    <<FmtInt("column #", i),
      FmtStr("column name: ", column_name),
      FmtStr("column data type: ", data_type)>>

\* The branch taken for a dtype: the first of the four comparisons that
\* holds, or no statistics at all.
Dispatch(data_type, column_data) ==
    IF DtypeEq(data_type, "int64")
    THEN _add_int64_column_descriptions(column_data)
    ELSE IF DtypeEq(data_type, "datetime64")
    THEN _add_datetime64_column_descriptions(column_data)
    ELSE IF DtypeEq(data_type, "category")
    THEN _add_category_column_descriptions(column_data)
    ELSE IF DtypeEq(data_type, "object")
    THEN _add_object_column_descriptions(column_data)
    ELSE Described(<<>>)

\* One turn of the loop: "\n", then the header and the statistics.
AppendColumn(all_descriptions, i, column, stats) ==
    all_descriptions \o <<BlankLine>>
        \o Header(i, column.name, column.dtype) \o stats

\* The loop from the column at position i (zero-based) on: the text
\* returned, or the exception that ends the call.
RECURSIVE DescribeFrom(_, _, _)
DescribeFrom(sampled_data_df, i, all_descriptions) ==
    IF i >= Len(sampled_data_df)
    THEN [exc |-> "", text |-> all_descriptions]
    ELSE LET column == sampled_data_df[i + 1]
             stats == Dispatch(column.dtype, column.values)
         IN  IF stats.exc /= ""
             THEN [exc |-> stats.exc, text |-> <<>>]
             ELSE DescribeFrom(sampled_data_df, i + 1,
                      AppendColumn(all_descriptions, i, column, stats.lines))

\* The outcome of Form_columns_description(sampled_data).
FormColumnsDescription(table) == DescribeFrom(table, 0, <<>>)

(* ---------------------------- the model object ------------------------- *)

\* The class attributes of LLMBaseModel, with the three access flags as
\* the constructor set them.
NewModel(use_dataloader, use_raw_data, use_metadata) ==
    [use_dataloader      |-> use_dataloader,
     use_raw_data        |-> use_raw_data,
     use_metadata        |-> use_metadata,
     off_table_features  |-> <<>>,
     prompts             |-> <<"message_prefix", "message_suffix", "system_role_content">>,
     columns             |-> <<>>,
     dataset_description |-> "",
     _responses          |-> <<>>,
     _message_list       |-> <<>>]

\* No call has returned yet.
NotCalled == [exc |-> "not called", text |-> <<>>]

Init ==
    /\ self \in {NewModel(d, r, m) : d \in BOOLEAN, r \in BOOLEAN, m \in BOOLEAN}
    /\ sampled_data \in Tables
    /\ ret = NotCalled
    /\ calls = 0
    /\ access = "unchecked"

\* a == b == c == False: Python chains the comparisons.
AllEqualFalse(a, b, c) == (a = b) /\ (b = c) /\ (c = FALSE)

\* a == b, the comparison with True left out.
BothEqual(a, b) == a = b

\* a == b == True.
BothEqualTrue(a, b) == (a = b) /\ (b = TRUE)

\* The outcome of _check_access_type: the error raised, or "ok".
AccessOutcome(model) ==
    IF AllEqualFalse(model.use_dataloader, model.use_raw_data, model.use_metadata)
    THEN "SynthesizerInitError: Data access type not specified"
    ELSE IF BothEqualTrue(model.use_dataloader, model.use_raw_data)
    THEN "SynthesizerInitError: Duplicate data access type found"
    ELSE "ok"

_check_access_type ==
    /\ access' = AccessOutcome(self)
    /\ UNCHANGED <<self, sampled_data, ret, calls>>

\* The calls made so far are counted as 0, 1, or 2 for "two or more".
Saturated(n) == IF n > 2 THEN 2 ELSE n

\* Form_columns_description keeping what it built in _message_list, as a
\* method that records its messages would.
FormColumnsDescriptionRecording ==
    /\ ret' = [exc  |-> FormColumnsDescription(sampled_data).exc,
               text |-> self._message_list \o FormColumnsDescription(sampled_data).text]
    /\ self' = [self EXCEPT !._message_list =
                    IF calls < 2 THEN ret'.text ELSE @]
    /\ calls' = Saturated(calls + 1)
    /\ UNCHANGED <<sampled_data, access>>

Form_columns_description ==
    /\ ret' = FormColumnsDescription(sampled_data)
    /\ calls' = Saturated(calls + 1)
    /\ UNCHANGED <<self, sampled_data, access>>

Next == _check_access_type \/ Form_columns_description

Spec == Init /\ [][Next]_vars

(* ------------------------- reading a description ----------------------- *)

\* The positions of the "column #" lines of a text.
HeaderAt(text) == {p \in 1..Len(text) : text[p].tag = "column #"}

\* The position of the j-th "column #" line (j from 1).
NthHeader(text, j) ==
    CHOOSE p \in HeaderAt(text) :
        Cardinality({q \in HeaderAt(text) : q < p}) = j - 1

\* The j-th block: from its "column #" line to the line before the blank
\* line that separates it from the next block, or to the end of the text.
Block(text, j) ==
    SubSeq(text, NthHeader(text, j),
           IF j = Cardinality(HeaderAt(text)) THEN Len(text)
           ELSE NthHeader(text, j + 1) - 2)

\* The lines of the j-th block after its three header lines.
Stats(text, j) == SubSeq(Block(text, j), 4, Len(Block(text, j)))

\* A call has ended; it has ended by returning a text.
Called == calls > 0
Returned == Called /\ ret.exc = ""

\* The columns of the table of a given dtype (positions from 1).
ColumnsOf(dtype) ==
    {j \in 1..Len(sampled_data) : sampled_data[j].dtype = dtype}

\* The j-th block of the returned text is there and starts with the header
\* of the j-th column: zero-based index, name, dtype.
HasHeaderOf(j) ==
    /\ j <= Cardinality(HeaderAt(ret.text))
    /\ Len(Block(ret.text, j)) >= 3
    /\ Block(ret.text, j)[1] = [tag |-> "column #", txt |-> "int", a |-> j - 1, b |-> 1]
    /\ Block(ret.text, j)[2].tag = "column name: "
    /\ Block(ret.text, j)[2].txt = sampled_data[j].name
    /\ Block(ret.text, j)[3].tag = "column data type: "
    /\ Block(ret.text, j)[3].txt = sampled_data[j].dtype

\* The distinct values of a column and their number, from the table alone.
DistinctCount(values) ==
    Cardinality({v \in Values : \E p \in 1..Len(values) : values[p] = v})

SumOfSquares(values) ==
    SeqSum([p \in 1..Len(values) |-> values[p] * values[p]])

(* -------------------------------- claims ------------------------------- *)

\* C1: for every table, Form_columns_description returns a text and never
\* raises an error.
C1_NeverRaises == Called => ret.exc = ""

\* C2: for every table the output holds exactly one header block per input
\* column, the j-th carrying the zero-based index and the name of the j-th
\* column, in input order.
C2_OneHeaderPerColumn ==
    Called =>
        /\ ret.exc = ""
        /\ Cardinality(HeaderAt(ret.text)) = Len(sampled_data)
        /\ \A j \in 1..Len(sampled_data) : HasHeaderOf(j)

\* C3: the block of every categorical column reports the total number of
\* values and the number of distinct category values, both as counts.
C3_CategoryCounts ==
    Called =>
        \A j \in ColumnsOf("category") :
            /\ ret.exc = ""
            /\ HasHeaderOf(j)
            /\ Len(Stats(ret.text, j)) = 2
            /\ Stats(ret.text, j)[1].txt = "int"
            /\ Stats(ret.text, j)[1].a = Len(sampled_data[j].values)
            /\ Stats(ret.text, j)[2].txt = "int"
            /\ Stats(ret.text, j)[2].a = DistinctCount(sampled_data[j].values)

\* C4: in a returned text the block of every date/time column reports,
\* after the header, the earliest value of the column as the start date and
\* the latest as the end date.
C4_DatetimeRange ==
    Returned =>
        \A j \in ColumnsOf("datetime64[ns]") :
            Len(sampled_data[j].values) > 0 =>
                /\ HasHeaderOf(j)
                /\ Len(Stats(ret.text, j)) = 2
                /\ Stats(ret.text, j)[1].tag = "start date: "
                /\ Stats(ret.text, j)[1].txt = "int"
                /\ Stats(ret.text, j)[1].a \in Unique(sampled_data[j].values)
                /\ \A v \in Unique(sampled_data[j].values) :
                       Stats(ret.text, j)[1].a <= v
                /\ Stats(ret.text, j)[2].tag = "end date: "
                /\ Stats(ret.text, j)[2].txt = "int"
                /\ Stats(ret.text, j)[2].a \in Unique(sampled_data[j].values)
                /\ \A v \in Unique(sampled_data[j].values) :
                       Stats(ret.text, j)[2].a >= v

C6_ObjectCounts ==
    Returned =>
        \A j \in ColumnsOf("object") :
            LET st == Stats(ret.text, j)
            IN  /\ HasHeaderOf(j)
                /\ Len(st) = 2
                /\ st[1].tag = "number of all object values: "
                /\ st[1].txt = "int"
                /\ st[1].a = Len(sampled_data[j].values)
                /\ st[2].tag = "number of unique object values: "
                /\ st[2].txt = "int"
                /\ st[2].a = DistinctCount(sampled_data[j].values)
                /\ st[2].a <= st[1].a

\* C6's case: a returned text for a table with an object column that holds
\* a value twice.
C6_Witness ==
    /\ Returned
    /\ \E j \in ColumnsOf("object") :
           /\ DistinctCount(sampled_data[j].values) < Len(sampled_data[j].values)
           /\ Stats(ret.text, j)[2].a < Stats(ret.text, j)[1].a

\* C7: for every column of a dtype other than the four, the header of the
\* column is emitted and no statistics line follows it.
C7_UnrecognizedHeaderOnly ==
    Called =>
        \A j \in ColumnsOf("float64") :
            /\ ret.exc = ""
            /\ HasHeaderOf(j)
            /\ Stats(ret.text, j) = <<>>

\* C8: a zero-column table yields the empty string without an error, and
\* a table with at least one column yields a non-empty string.
C8_EmptyIffNoColumns ==
    Called =>
        /\ ret.exc = ""
        /\ (ret.text = <<>>) <=> (Len(sampled_data) = 0)

C10_AccessCheck ==
    [][access' /= access =>
          /\ self' = self
          /\ (access' /= "ok") <=>
                 \/ (~self.use_dataloader /\ ~self.use_raw_data /\ ~self.use_metadata)
                 \/ (self.use_dataloader /\ self.use_raw_data)]_vars

\* C10's case: the check has raised for a duplicate access type although
\* use_metadata is set.
C10_Witness ==
    /\ access = "SynthesizerInitError: Duplicate data access type found"
    /\ self.use_metadata

(* ---------------- what holds of the calls that do return --------------- *)

\* Every returned text holds one header block per column, in input order.
ReturnedOneHeaderPerColumn ==
    Returned =>
        /\ Cardinality(HeaderAt(ret.text)) = Len(sampled_data)
        /\ \A j \in 1..Len(sampled_data) : HasHeaderOf(j)

\* In every returned text a float64 column has its header and no
\* statistics, as has a datetime64[ns] column.
ReturnedHeaderOnly ==
    Returned =>
        \A j \in ColumnsOf("float64") \cup ColumnsOf("datetime64[ns]") :
            HasHeaderOf(j) /\ Stats(ret.text, j) = <<>>

\* A returned text is empty exactly for the table without columns.
ReturnedEmptyIffNoColumns ==
    Returned => ((ret.text = <<>>) <=> (Len(sampled_data) = 0))

\* A call raises exactly for the tables with a categorical column.
RaisesIffCategory ==
    Called => ((ret.exc = "TypeError") <=> (ColumnsOf("category") /= {}))

====
